---------------------------- MODULE Spec2Model ----------------------------
(***************************************************************************)
(* Model of the libraries-gateway server controllers:                      *)
(*   - the search proxy   (lib/controllers/api/search/index.js)            *)
(*   - the blog controller (BlogsController: getContent, _entriesExpired,  *)
(*     _getBlogPosts)                                                      *)
(* JavaScript values are modelled as records of one shape so that strings, *)
(* numbers, NaN and undefined can live in the same options object.         *)
(***************************************************************************)
EXTENDS Integers, Sequences, FiniteSets, TLC

(***************************************************************************)
(* Bounds of the model.                                                    *)
(***************************************************************************)
MaxPageLen == 2     \* longest 'page' string enumerated
MaxMag == 4         \* largest integer part of a numeric 'page'
PageLimit == 3      \* config.nodes['find-a-resource'].settings.pageLimit
MaxReq == 2         \* blog requests that may be in flight together
MaxTime == 3        \* the clock runs from 1 to MaxTime
MaxExp == 1         \* config.nodes.blogs.settings.expiration is in 0..MaxExp
MaxSkew == 1        \* clock advance between two Date.now() calls of one turn
MaxLen == 4         \* longest list of blog posts a fetch returns
MaxPerPage == 3     \* config.nodes.blogs.settings.itemsPerPage is in 1..MaxPerPage
MaxLibs == 2        \* libraries on the map page, each with its Library view

(***************************************************************************)
(* JavaScript values.                                                      *)
(*   t = "undef" : undefined                                               *)
(*   t = "str"   : a string, s its characters                              *)
(*   t = "num"   : a finite number  (-1)^neg * (mag + 0.frac)              *)
(*   t = "nan"   : NaN                                                     *)
(*   t = "null"  : null                                                    *)
(***************************************************************************)
Undef == [t |-> "undef", s |-> <<>>, neg |-> FALSE, mag |-> 0, frac |-> <<>>]
Null == [t |-> "null", s |-> <<>>, neg |-> FALSE, mag |-> 0, frac |-> <<>>]
NaN == [t |-> "nan", s |-> <<>>, neg |-> FALSE, mag |-> 0, frac |-> <<>>]
Str(chars) == [t |-> "str", s |-> chars, neg |-> FALSE, mag |-> 0, frac |-> <<>>]
Num(neg, mag, frac) == [t |-> "num", s |-> <<>>, neg |-> neg, mag |-> mag, frac |-> frac]
Int2Num(i) == IF i < 0 THEN Num(TRUE, -i, <<>>) ELSE Num(FALSE, i, <<>>)

IsInteger(v) == v.t = "num" /\ v.frac = <<>>
IntVal(v) == IF v.neg THEN -v.mag ELSE v.mag

\* ToBoolean: undefined, null, NaN, "", +0 and -0 are falsy.
Truthy(v) ==
    CASE v.t = "undef" -> FALSE
      [] v.t = "null" -> FALSE
      [] v.t = "nan" -> FALSE
      [] v.t = "str" -> v.s # <<>>
      [] v.t = "num" -> ~(v.mag = 0 /\ v.frac = <<>>)

DigitChars == <<"0", "1", "2", "3", "4", "5", "6", "7", "8", "9">>
IsDigit(c) == \E i \in 1..Len(DigitChars) : DigitChars[i] = c
DigitVal(c) == (CHOOSE i \in 1..Len(DigitChars) : DigitChars[i] = c) - 1
IsSpace(c) == c = " "

UpperChars == <<"A", "B", "C", "D", "E", "F", "G", "H", "I", "J", "K", "L", "M",
                "N", "O", "P", "Q", "R", "S", "T", "U", "V", "W", "X", "Y", "Z">>
LowerChars == <<"a", "b", "c", "d", "e", "f", "g", "h", "i", "j", "k", "l", "m",
                "n", "o", "p", "q", "r", "s", "t", "u", "v", "w", "x", "y", "z">>
LowerChar(c) ==
    IF \E i \in 1..Len(UpperChars) : UpperChars[i] = c
    THEN LowerChars[CHOOSE i \in 1..Len(UpperChars) : UpperChars[i] = c]
    ELSE c
\* String.prototype.toLowerCase
ToLowerCase(chars) == [i \in 1..Len(chars) |-> LowerChar(chars[i])]

RECURSIVE SkipSpaces(_)
SkipSpaces(chars) ==
    IF chars # <<>> /\ IsSpace(Head(chars)) THEN SkipSpaces(Tail(chars)) ELSE chars

RECURSIVE DigitPrefix(_)
\* the longest prefix of chars made of decimal digits
DigitPrefix(chars) ==
    IF chars # <<>> /\ IsDigit(Head(chars))
    THEN <<Head(chars)>> \o DigitPrefix(Tail(chars))
    ELSE <<>>

RECURSIVE DigitsValue(_)
DigitsValue(ds) ==
    IF ds = <<>> THEN 0
    ELSE 10 * DigitsValue(SubSeq(ds, 1, Len(ds) - 1)) + DigitVal(ds[Len(ds)])

RECURSIVE NatToChars(_)
NatToChars(n) ==
    IF n < 10 THEN <<DigitChars[n + 1]>>
    ELSE NatToChars(n \div 10) \o <<DigitChars[(n % 10) + 1]>>

\* Number.prototype.toString for the decimals of the model (-0 prints "0").
NumToChars(v) ==
    (IF v.neg /\ ~(v.mag = 0 /\ v.frac = <<>>) THEN <<"-">> ELSE <<>>)
    \o NatToChars(v.mag)
    \o (IF v.frac = <<>> THEN <<>>
        ELSE <<".">> \o [i \in 1..Len(v.frac) |-> DigitChars[v.frac[i] + 1]])

\* ToString of a value
ToChars(v) ==
    CASE v.t = "str" -> v.s
      [] v.t = "num" -> NumToChars(v)
      [] v.t = "nan" -> <<"N", "a", "N">>
      [] v.t = "undef" -> <<"u", "n", "d", "e", "f", "i", "n", "e", "d">>
      [] v.t = "null" -> <<"n", "u", "l", "l">>

\* parseInt(chars, 10) of a string
ParseIntChars(chars) ==
    LET body == SkipSpaces(chars)
        signed == body # <<>> /\ Head(body) \in {"-", "+"}
        neg == body # <<>> /\ Head(body) = "-"
        rest == IF signed THEN Tail(body) ELSE body
        ds == DigitPrefix(rest)
    IN  IF ds = <<>> THEN NaN ELSE Num(neg, DigitsValue(ds), <<>>)

\* parseInt(v, 10): the argument is first converted to a string
ParseInt(v) == ParseIntChars(ToChars(v))


(***************************************************************************)
(* decodeURIComponent.  Printable ASCII (0x20..0x7E) is decoded (the grave *)
(* accent, 0x60, is written GRAVE); a percent sign                        *)
(* that is not followed by two hex digits, or an escape outside that       *)
(* range standing alone, is malformed and makes the call throw URIError.   *)
(***************************************************************************)
HexChars == <<"0", "1", "2", "3", "4", "5", "6", "7", "8", "9",
              "A", "B", "C", "D", "E", "F">>
IsHex(c) == \E i \in 1..Len(HexChars) : LowerChar(HexChars[i]) = LowerChar(c)
HexVal(c) == (CHOOSE i \in 1..Len(HexChars) : LowerChar(HexChars[i]) = LowerChar(c)) - 1
Ascii == <<" ", "!", "\"", "#", "$", "%", "&", "'", "(", ")", "*", "+", ",", "-", ".", "/",
           "0", "1", "2", "3", "4", "5", "6", "7", "8", "9", ":", ";", "<", "=", ">", "?",
           "@", "A", "B", "C", "D", "E", "F", "G", "H", "I", "J", "K", "L", "M", "N", "O",
           "P", "Q", "R", "S", "T", "U", "V", "W", "X", "Y", "Z", "[", "\\", "]", "^", "_",
           "GRAVE", "a", "b", "c", "d", "e", "f", "g", "h", "i", "j", "k", "l", "m", "n", "o",
           "p", "q", "r", "s", "t", "u", "v", "w", "x", "y", "z", "{", "|", "}", "~">>

RECURSIVE Malformed(_)
\* TRUE when decodeURIComponent(chars) throws
Malformed(chars) ==
    IF chars = <<>> THEN FALSE
    ELSE IF Head(chars) # "%" THEN Malformed(Tail(chars))
    ELSE IF Len(chars) < 3 \/ ~IsHex(chars[2]) \/ ~IsHex(chars[3]) THEN TRUE
    ELSE LET code == 16 * HexVal(chars[2]) + HexVal(chars[3])
         IN  IF code < 32 \/ code > 126 THEN TRUE
             ELSE Malformed(SubSeq(chars, 4, Len(chars)))

RECURSIVE Decoded(_)
\* the result of decodeURIComponent(chars) when it does not throw
Decoded(chars) ==
    IF chars = <<>> THEN <<>>
    ELSE IF Head(chars) # "%" THEN <<Head(chars)>> \o Decoded(Tail(chars))
    ELSE <<Ascii[16 * HexVal(chars[2]) + HexVal(chars[3]) - 31]>>
         \o Decoded(SubSeq(chars, 4, Len(chars)))

\* try { opts[key] = decodeURIComponent(value) } catch (err) { opts[key] = value }
DecodeValue(v) ==
    LET chars == ToChars(v)
    IN  IF Malformed(chars) THEN v ELSE Str(Decoded(chars))

RECURSIVE ReplaceAmp(_)
\* q.replace(/&/g, "%26")
ReplaceAmp(chars) ==
    IF chars = <<>> THEN <<>>
    ELSE (IF Head(chars) = "&" THEN <<"%", "2", "6">> ELSE <<Head(chars)>>)
         \o ReplaceAmp(Tail(chars))

(***************************************************************************)
(* Options objects: functions from the keys present to their values.       *)
(***************************************************************************)
Get(o, k) == IF k \in DOMAIN o THEN o[k] ELSE Undef
Put(o, k, v) == [x \in (DOMAIN o) \cup {k} |-> IF x = k THEN v ELSE o[x]]
EmptyObj == [k \in {} |-> Undef]

AQUABROWSER == <<"a", "q", "u", "a", "b", "r", "o", "w", "s", "e", "r">>
SUMMON == <<"s", "u", "m", "m", "o", "n">>

(***************************************************************************)
(* Error values.  null = TRUE is "no error"; otherwise fields is the set   *)
(* of own properties of the value passed as the error (a bare string has   *)
(* none, an Error object has "message").                                   *)
(***************************************************************************)
NoErr == [null |-> TRUE, fields |-> {}, code |-> 0, msg |-> ""]
MkErr(code, msg) == [null |-> FALSE, fields |-> {"code", "msg"}, code |-> code, msg |-> msg]
StringErr == [null |-> FALSE, fields |-> {}, code |-> 0, msg |-> ""]
ErrorObj == [null |-> FALSE, fields |-> {"message"}, code |-> 0, msg |-> ""]

\* what a vendor backend may pass to its callback as the error
VendorErrors == {MkErr(500, "Error while fetching results"), StringErr, ErrorObj}
VendorReplies == {NoErr} \cup VendorErrors

(***************************************************************************)
(* State of one call of the search controller.                             *)
(***************************************************************************)
VARIABLES
    parameters,   \* config.nodes['find-a-resource'].settings.parameters
    fn,           \* the exported function that was called ("none" before)
    supplied,     \* the options object as the caller supplied it
    sanitized,    \* what _sanitizeQuery returned
    opts,         \* the options object the call holds
    pc,           \* "idle", "waiting" (vendor request in flight), "done"
    contacted,    \* the vendor calls made: <<[api, op, opts]>>
    cbs,          \* the invocations of the caller's callback: <<[err, res]>>
    thrown        \* an exception escaped to the caller

svars == <<parameters, fn, supplied, sanitized, opts, pc, contacted, cbs, thrown>>

(***************************************************************************)
(* State of the blog controller.                                           *)
(***************************************************************************)
VARIABLES
    itemsPerPage,   \* config.nodes.blogs.settings.itemsPerPage
    expiration,     \* config.nodes.blogs.settings.expiration
    _entries,       \* the cached blog posts, or null
    _lastUpdated,   \* the time of the last successful fetch, or null
    now,            \* what Date.now() returns
    reqs            \* the requests: their state and what was rendered

bvars == <<itemsPerPage, expiration, _entries, _lastUpdated, now, reqs>>

(***************************************************************************)
(* State of the map page: one Library view per library.                    *)
(***************************************************************************)
VARIABLES
    model,        \* per library, the model's attributes 'active' and 'visible'
    el,           \* per library, this.$el: has the class 'active', is shown
    marker,       \* per library, this.marker: is shown, is bouncing
    infoWindow,   \* the library the info window is open for, 0 when closed
    location      \* window.location: "map", or "profile" once navigated

lvars == <<model, el, marker, infoWindow, location>>
vars == <<parameters, fn, supplied, sanitized, opts, pc, contacted, cbs, thrown,
          itemsPerPage, expiration, _entries, _lastUpdated, now, reqs,
          model, el, marker, infoWindow, location>>

Keys == {"q", "api", "page", "facet", "evil"}
AllParameters == {"q", "api", "page", "facet", "id"}
\* the configured parameters, and a configuration that leaves 'api' out
Whitelists == {AllParameters, (AllParameters \ {"api"}) \cup {"author"}}

NoRes == [kind |-> "none", query |-> EmptyObj]

(***************************************************************************)
(* Inputs.                                                                 *)
(***************************************************************************)
PageChars == {"0", "2", "9", "-", " ", "a"}
PageStrings == UNION {[1..n -> PageChars] : n \in 0..MaxPageLen}
PageNumbers == {Num(neg, mag, frac) : neg \in BOOLEAN, mag \in 0..MaxMag, frac \in {<<>>, <<5>>}}
PageInputs == {Undef} \cup {Str(s) : s \in PageStrings} \cup PageNumbers
ApiInputs == {Undef, Str(<<>>), Str(SUMMON), Str(<<"S", "u", "m", "m", "o", "n">>),
              Str(AQUABROWSER), Str(<<"f", "o", "o">>)}
QInputs == {Undef, Str(<<"d", "&">>), Str(<<"%">>)}
FacetInputs == {Undef, Str(<<"f", "o", "r", "m", "a", "t">>)}
EvilInputs == {Undef, Str(<<"x">>)}

\* the object whose keys are those given a value
MkOpts(q, api, page, facet, evil) ==
    LET all == [k \in Keys |->
                  CASE k = "q" -> q [] k = "api" -> api [] k = "page" -> page
                    [] k = "facet" -> facet [] k = "evil" -> evil]
    IN  [k \in {x \in Keys : all[x] # Undef} |-> all[k]]

OptsInputs ==
    {MkOpts(q, api, page, facet, evil) :
        q \in QInputs, api \in ApiInputs, page \in PageInputs,
        facet \in FacetInputs, evil \in EvilInputs}

(***************************************************************************)
(* _sanitizeQuery                                                          *)
(***************************************************************************)
\* a sanitizer that forgets to delete the keys that are not parameters
StripInvalid_KeepAll(query) == query

\* _.each(query, ...): delete every key that is not a configured parameter
StripInvalid(query) ==
    [k \in {x \in DOMAIN query : x \in parameters} |-> query[k]]

\* if (query.api) query.api = query.api.toLowerCase()
LowerApi(query) ==
    IF Truthy(Get(query, "api"))
    THEN Put(query, "api", Str(ToLowerCase(Get(query, "api").s)))
    ELSE query

\* if (query.page) { parseInt; NaN or < 1 -> 1; > pageLimit -> pageLimit }
SanitizePage(query) ==
    IF Truthy(Get(query, "page"))
    THEN LET parsed == ParseInt(Get(query, "page"))
         IN  IF parsed.t = "nan" \/ IntVal(parsed) < 1
             THEN Put(query, "page", Int2Num(1))
             ELSE IF IntVal(parsed) > PageLimit
             THEN Put(query, "page", Int2Num(PageLimit))
             ELSE Put(query, "page", parsed)
    ELSE query

SanitizeQuery(query) == SanitizePage(LowerApi(StripInvalid(query)))

\* the vendor module's function is entered with the options object; it either
\* throws synchronously or will call back later
CallVendor(api, op, o, throws) ==
    /\ contacted' = Append(contacted, [api |-> api, op |-> op, opts |-> o])
    /\ opts' = o
    /\ IF throws
       THEN pc' = "done" /\ thrown' = TRUE /\ cbs' = cbs
       ELSE pc' = "waiting" /\ thrown' = FALSE /\ cbs' = cbs

Callback(err, res) ==
    /\ cbs' = Append(cbs, [err |-> err, res |-> res])
    /\ pc' = "done"

\* getResults(opts, callback), up to the vendor call
GetResultsApi(o) ==
    IF ~Truthy(Get(o, "api")) \/ Get(o, "api") # Str(SUMMON)
    THEN Put(o, "api", Str(AQUABROWSER))
    ELSE o

GetResults(o, throws) ==
    /\ pc = "idle"
    /\ fn' = "getResults"
    /\ supplied' = o
    /\ LET s == SanitizeQuery(GetResultsApi(o))
           api == IF Get(s, "api") = Str(AQUABROWSER) THEN "aquabrowser" ELSE "summon"
       IN  /\ sanitized' = s
           /\ CallVendor(api, "getResults", s, throws)
    /\ UNCHANGED parameters

\* the vendor's callback of getResults, and _resultsCallback
ResultsReply(err) ==
    /\ pc = "waiting"
    /\ fn = "getResults"
    /\ IF ~err.null
       THEN Callback(err, NoRes) /\ UNCHANGED <<opts, thrown>>
       ELSE LET dec == [k \in DOMAIN opts |-> DecodeValue(opts[k])]
            IN  IF "q" \notin DOMAIN dec
                THEN \* opts.q.replace on undefined: TypeError
                     /\ opts' = dec
                     /\ thrown' = TRUE
                     /\ pc' = "done"
                     /\ cbs' = cbs
                ELSE LET out == Put(dec, "q", Str(ReplaceAmp(dec["q"].s)))
                     IN  /\ opts' = out
                         /\ Callback(NoErr, [kind |-> "wrapped", query |-> out])
                         /\ UNCHANGED thrown
    /\ UNCHANGED <<parameters, fn, supplied, sanitized, contacted>>

\* getResultById(opts, callback), up to the vendor call
GetResultById(o, throws) ==
    /\ pc = "idle"
    /\ fn' = "getResultById"
    /\ supplied' = o
    /\ LET s == SanitizeQuery(o)
           isAquabrowser == Get(s, "api") = Str(AQUABROWSER)
           isSummon == Get(s, "api") = Str(SUMMON)
       IN  /\ sanitized' = s
           /\ IF ~isAquabrowser /\ ~isSummon
              THEN /\ Callback(MkErr(400, "Invalid API"), NoRes)
                   /\ opts' = s
                   /\ UNCHANGED <<contacted, thrown>>
              ELSE CallVendor(IF isAquabrowser THEN "aquabrowser" ELSE "summon",
                              "getResults", s, throws)
    /\ UNCHANGED parameters

\* the vendor's callback of getResultById
ResultByIdReply(err) ==
    /\ pc = "waiting"
    /\ fn = "getResultById"
    /\ IF ~err.null
       THEN Callback(err, NoRes)
       ELSE Callback(NoErr, [kind |-> "results", query |-> EmptyObj])
    /\ UNCHANGED <<parameters, fn, supplied, sanitized, opts, contacted, thrown>>

\* getFacetsForResults(opts, callback), up to the vendor call
GetFacetsForResults(o, throws) ==
    /\ pc = "idle"
    /\ fn' = "getFacetsForResults"
    /\ supplied' = o
    /\ LET s == SanitizeQuery(o)
           isAquabrowser == Get(s, "api") = Str(AQUABROWSER)
           isSummon == Get(s, "api") = Str(SUMMON)
       IN  /\ sanitized' = s
           /\ IF ~Truthy(Get(s, "api"))
              THEN /\ Callback(MkErr(400, "Invalid API"), NoRes)
                   /\ opts' = s
                   /\ UNCHANGED <<contacted, thrown>>
              ELSE IF ~Truthy(Get(s, "facet"))
              THEN /\ Callback(MkErr(400, "Invalid facet"), NoRes)
                   /\ opts' = s
                   /\ UNCHANGED <<contacted, thrown>>
              ELSE IF ~Truthy(Get(s, "q"))
              THEN /\ Callback(MkErr(400, "Invalid query"), NoRes)
                   /\ opts' = s
                   /\ UNCHANGED <<contacted, thrown>>
              ELSE IF isAquabrowser \/ isSummon
              THEN /\ contacted' = Append(contacted,
                          [api |-> IF isAquabrowser THEN "aquabrowser" ELSE "summon",
                           op |-> "getFacetsFromResults", opts |-> s])
                   /\ opts' = s
                   /\ IF throws
                      THEN \* catch (err): the exception is turned into an error
                           /\ Callback(MkErr(500, "Error while fetching facets"), NoRes)
                           /\ UNCHANGED thrown
                      ELSE pc' = "waiting" /\ UNCHANGED <<cbs, thrown>>
              ELSE \* neither branch is taken: the function returns and
                   \* the callback is never invoked
                   /\ pc' = "done"
                   /\ opts' = s
                   /\ UNCHANGED <<contacted, cbs, thrown>>
    /\ UNCHANGED parameters

\* _parseFacets, the vendor's callback of getFacetsForResults
ParseFacets(err) ==
    /\ pc = "waiting"
    /\ fn = "getFacetsForResults"
    /\ IF ~err.null
       THEN Callback(MkErr(500, "Error while fetching facets"), NoRes)
       ELSE Callback(NoErr, [kind |-> "results", query |-> EmptyObj])
    /\ UNCHANGED <<parameters, fn, supplied, sanitized, opts, contacted, thrown>>

\* a caller calls getResults with some options object
CallGetResults ==
    /\ pc = "idle"
    /\ \E o \in OptsInputs, throws \in BOOLEAN : GetResults(o, throws)
    /\ UNCHANGED <<bvars, lvars>>

\* the vendor backend answers a getResults request
ReplyGetResults ==
    /\ pc = "waiting"
    /\ fn = "getResults"
    /\ \E e \in VendorReplies : ResultsReply(e)
    /\ UNCHANGED <<bvars, lvars>>

CallGetResultById ==
    /\ pc = "idle"
    /\ \E o \in OptsInputs, throws \in BOOLEAN : GetResultById(o, throws)
    /\ UNCHANGED <<bvars, lvars>>

ReplyGetResultById ==
    /\ pc = "waiting"
    /\ fn = "getResultById"
    /\ \E e \in VendorReplies : ResultByIdReply(e)
    /\ UNCHANGED <<bvars, lvars>>

CallGetFacetsForResults ==
    /\ pc = "idle"
    /\ \E o \in OptsInputs, throws \in BOOLEAN : GetFacetsForResults(o, throws)
    /\ UNCHANGED <<bvars, lvars>>

ReplyGetFacetsForResults ==
    /\ pc = "waiting"
    /\ fn = "getFacetsForResults"
    /\ \E e \in VendorReplies : ParseFacets(e)
    /\ UNCHANGED <<bvars, lvars>>

SNext ==
    \/ CallGetResults
    \/ ReplyGetResults
    \/ CallGetResultById
    \/ ReplyGetResultById
    \/ CallGetFacetsForResults
    \/ ReplyGetFacetsForResults

(***************************************************************************)
(* Number(chars) for decimal literals, and Math.round.                     *)
(***************************************************************************)
RECURSIVE TrimRight(_)
TrimRight(chars) ==
    IF chars # <<>> /\ IsSpace(chars[Len(chars)])
    THEN TrimRight(SubSeq(chars, 1, Len(chars) - 1))
    ELSE chars

RECURSIVE DropTrailingZeros(_)
DropTrailingZeros(ds) ==
    IF ds # <<>> /\ ds[Len(ds)] = 0
    THEN DropTrailingZeros(SubSeq(ds, 1, Len(ds) - 1))
    ELSE ds

\* ToNumber of a string: optional sign, digits with an optional fraction,
\* surrounded by white space; "" is 0; anything else is NaN
ToNumberChars(chars) ==
    LET body == TrimRight(SkipSpaces(chars))
        signed == body # <<>> /\ Head(body) \in {"-", "+"}
        neg == body # <<>> /\ Head(body) = "-"
        rest == IF signed THEN Tail(body) ELSE body
        ip == DigitPrefix(rest)
        after == SubSeq(rest, Len(ip) + 1, Len(rest))
        dotted == after # <<>> /\ Head(after) = "."
        fpc == IF dotted THEN DigitPrefix(Tail(after)) ELSE <<>>
        tail == IF dotted THEN SubSeq(after, Len(fpc) + 2, Len(after)) ELSE after
        fp == DropTrailingZeros([i \in 1..Len(fpc) |-> DigitVal(fpc[i])])
    IN  IF body = <<>> THEN Num(FALSE, 0, <<>>)
        ELSE IF tail # <<>> \/ (ip = <<>> /\ fpc = <<>>) THEN NaN
        ELSE Num(neg, DigitsValue(ip), fp)

ToNumber(v) ==
    CASE v.t = "str" -> ToNumberChars(v.s)
      [] v.t = "num" -> v
      [] v.t = "null" -> Num(FALSE, 0, <<>>)
      [] OTHER -> NaN

\* Math.round(x) = floor(x + 0.5)
MathRound(x) ==
    IF x.t # "num" \/ x.frac = <<>> THEN x
    ELSE IF ~x.neg
    THEN Num(FALSE, x.mag + (IF x.frac[1] >= 5 THEN 1 ELSE 0), <<>>)
    ELSE LET aboveHalf == \/ x.frac[1] > 5
                          \/ x.frac[1] = 5 /\ Len(x.frac) > 1
         IN  Num(TRUE, x.mag + (IF aboveHalf THEN 1 ELSE 0), <<>>)

\* Math.round(a / b) for integers a >= 0, b > 0
RoundDiv(a, b) == (2 * a + b) \div (2 * b)

(***************************************************************************)
(* The blog controller.                                                    *)
(***************************************************************************)

Reqs == 1..MaxReq

NullEntries == [null |-> TRUE, items |-> <<>>]
Entries(list) == [null |-> FALSE, items |-> list]

\* a blog post: the id-th entry of the feed as it was at version 'updated'
BlogPostModel(id, updated) == [id |-> id, updated |-> updated]
FeedList(n, ver) == [i \in 1..n |-> BlogPostModel(i, ver)]

NoRender == [tpl |-> "none", entries |-> <<>>, page |-> Undef]
\* st: "none" (not arrived), "fetching" (its feed fetch is in flight), "done"
\* (rendered) or "crashed"; page: req.query.page; fetches: the feed fetches it
\* has issued; refreshed: the cache was filled since it arrived; fetchErr:
\* its fetch reported an error (the error is logged); out: what it rendered
NewRequest == [st |-> "none", page |-> Undef, fetches |-> 0, refreshed |-> FALSE,
               fetchErr |-> FALSE, out |-> NoRender]

\* that.renderTemplate(req, res, data, template, ...)
RenderTemplate(tpl, entries, page) == [tpl |-> tpl, entries |-> entries, page |-> page]

\* Array.prototype.slice(start, end) for 0 <= start
Slice(list, start, end) ==
    SubSeq(list, start + 1, IF end < Len(list) THEN end ELSE Len(list))

\* _entriesExpired with >= in place of >
EntriesExpired_Ge(lastUpdated, t) ==
    ~Truthy(lastUpdated) \/ (t - IntVal(lastUpdated)) >= expiration

\* _entriesExpired(), lastUpdated being the value of _lastUpdated and t what
\* Date.now() returns
EntriesExpired(lastUpdated, t) ==
    ~Truthy(lastUpdated) \/ (t - IntVal(lastUpdated)) > expiration

\* the else branch of getContent: paginate the cached entries and render
Paginate(entries, page, pgErr) ==
    LET len == Len(entries)
        paged == Truthy(page)
        numPages == RoundDiv(len, itemsPerPage)
        p == IF paged THEN MathRound(ToNumber(page)) ELSE Int2Num(1)
        isValid == p.t = "num" /\ IntVal(p) <= numPages /\ IntVal(p) > 0
        start == IF paged THEN (IntVal(p) * itemsPerPage) - itemsPerPage ELSE 0
        end == start + itemsPerPage
    IN  IF paged /\ ~isValid
        THEN RenderTemplate("errors/404", <<>>, p)
        ELSE IF pgErr
        THEN RenderTemplate("errors/500", <<>>, p)
        ELSE RenderTemplate("nodes/blogs",
                            IF len # 0 THEN Slice(entries, start, end) ELSE entries, p)

\* that.getContent(req, res) for the request rq, ents being _entries and
\* expired what _entriesExpired() returns: the request as it is left
GetContentStep(rq, ents, expired, pgErr) ==
    IF expired
    THEN [rq EXCEPT !.st = "fetching", !.fetches = @ + 1]
    ELSE IF ents.null
    THEN \* _entries.length of null: TypeError
         [rq EXCEPT !.st = "crashed"]
    ELSE [rq EXCEPT !.st = "done", !.out = Paginate(ents.items, rq.page, pgErr)]

\* a request arrives: getContent(req, res)
GetContent(r, page, pgErr) ==
    /\ reqs[r].st = "none"
    /\ reqs' = [reqs EXCEPT ![r] =
           GetContentStep([reqs[r] EXCEPT !.page = page],
                          _entries, EntriesExpired(_lastUpdated, now), pgErr)]
    /\ UNCHANGED <<itemsPerPage, expiration, _entries, _lastUpdated, now>>

\* an error handler that stamps the cache as updated although the fetch failed
FetchFailed_Stamp(r) ==
    /\ reqs[r].st = "fetching"
    /\ reqs' = [reqs EXCEPT ![r] =
           [@ EXCEPT !.st = "done", !.fetchErr = TRUE,
                     !.out = RenderTemplate("errors/500", <<>>, Undef)]]
    /\ _lastUpdated' = Int2Num(now)
    /\ UNCHANGED <<itemsPerPage, expiration, _entries, now>>

\* the callback of _getBlogPosts is given an error (the request failed, or
\* xml2js reported or threw an error)
FetchFailed(r) ==
    /\ reqs[r].st = "fetching"
    /\ reqs' = [reqs EXCEPT ![r] =
           [@ EXCEPT !.st = "done", !.fetchErr = TRUE,
                     !.out = RenderTemplate("errors/500", <<>>, Undef)]]
    /\ UNCHANGED <<itemsPerPage, expiration, _entries, _lastUpdated, now>>

\* the callback of _getBlogPosts is given the blog posts: the cache is
\* filled and getContent is entered again; the clock may have advanced by d
\* between the two Date.now() calls
FetchSucceeded(r, list, d, pgErr) ==
    /\ reqs[r].st = "fetching"
    /\ now + d <= MaxTime
    /\ _entries' = Entries(list)
    /\ _lastUpdated' = Int2Num(now)
    /\ now' = now + d
    /\ reqs' = [q \in Reqs |->
           IF q = r
           THEN GetContentStep([reqs[r] EXCEPT !.refreshed = TRUE], Entries(list),
                               EntriesExpired(Int2Num(now), now + d), pgErr)
           ELSE IF reqs[q].st = "fetching"
           THEN [reqs[q] EXCEPT !.refreshed = TRUE]
           ELSE reqs[q]]
    /\ UNCHANGED <<itemsPerPage, expiration>>

\* time passes
Tick ==
    /\ now < MaxTime
    /\ now' = now + 1
    /\ UNCHANGED <<itemsPerPage, expiration, _entries, _lastUpdated, reqs>>

\* the response has been sent; the slot takes the next request
Forget(r) ==
    /\ reqs[r].st \in {"done", "crashed"}
    /\ reqs' = [reqs EXCEPT ![r] = NewRequest]
    /\ UNCHANGED <<itemsPerPage, expiration, _entries, _lastUpdated, now>>

\* the state after construction (lines 41-42), for a configuration
BlogConstructed ==
    /\ _entries = NullEntries
    /\ _lastUpdated = Null
    /\ now = 1
    /\ reqs = [r \in Reqs |-> NewRequest]

\* the requests and the feeds of the concurrent runs
BlogPages == {Undef}
BlogLists == {FeedList(0, 1), FeedList(MaxLen, 1), FeedList(MaxLen, 2)}

(***************************************************************************)
(* The Library view (public/scripts/view/library.js).  A page is the       *)
(* record of the five variables above; every handler maps a page to the    *)
(* page it leaves behind.  Handlers run to completion: the events of       *)
(* model.set are delivered synchronously, inside the call.                 *)
(***************************************************************************)
Libs == 1..MaxLibs

Page == [model |-> model, el |-> el, marker |-> marker,
         infoWindow |-> infoWindow, location |-> location]

\* 'onActiveChange': toggleClass('active', active); marker.stopBounce()
OnActiveChange(P, l, a) ==
    [P EXCEPT !.el[l].active = a, !.marker[l].bouncing = FALSE]

\* model.set('active', a) with the subscription of line 54.  Whether a set
\* that changes nothing still fires 'change:active' is the model's choice:
\* 'always' covers both.
SetActive(P, l, a, always) ==
    LET Q == [P EXCEPT !.model[l].active = a]
    IN  IF P.model[l].active # a \/ always THEN OnActiveChange(Q, l, a) ELSE Q

\* 'hide': marker.hide(); $el.hide()
Hide(P, l) == [P EXCEPT !.marker[l].shown = FALSE, !.el[l].shown = FALSE]

\* 'show': marker.show(); $el.show()
Show(P, l) == [P EXCEPT !.marker[l].shown = TRUE, !.el[l].shown = TRUE]

\* infoWindow.close()
CloseInfoWindow(P) == [P EXCEPT !.infoWindow = 0]

\* infoWindow.open(this.model)
OpenInfoWindow(P, l) == [P EXCEPT !.infoWindow = l]

\* an 'onVisibleChange' that hides the library and leaves it active
OnVisibleChange_KeepActive(P, l, visible, always) ==
    IF visible THEN Show(P, l) ELSE Hide(P, l)

\* 'onVisibleChange'
OnVisibleChange(P, l, visible, always) ==
    IF visible
    THEN Show(P, l)
    ELSE LET H == Hide(P, l)
         IN  IF H.model[l].active
             THEN CloseInfoWindow(SetActive(H, l, FALSE, always))
             ELSE H

\* model.set('visible', v) with the subscription of line 55
SetVisible(P, l, v, always) ==
    LET Q == [P EXCEPT !.model[l].visible = v]
    IN  IF P.model[l].visible # v \/ always THEN OnVisibleChange(Q, l, v, always) ELSE Q

\* 'onActivateClick'; mobile is Modernizr.mq('only screen and (max-width: 767px)')
OnActivateClick(P, l, mobile, always) ==
    IF mobile
    THEN [P EXCEPT !.location = "profile"]
    ELSE SetActive(OpenInfoWindow(P, l), l, TRUE, always)

\* 'onMarkerClick'
OnMarkerClick(P, l, always) == SetActive(OpenInfoWindow(P, l), l, TRUE, always)

\* 'onMouseEnter': marker.startBounce()
OnMouseEnter(P, l) == [P EXCEPT !.marker[l].bouncing = TRUE]

\* 'onMouseLeave': marker.stopBounce()
OnMouseLeave(P, l) == [P EXCEPT !.marker[l].bouncing = FALSE]

\* the handler leaves the page Q behind
Becomes(Q) ==
    /\ model' = Q.model
    /\ el' = Q.el
    /\ marker' = Q.marker
    /\ infoWindow' = Q.infoWindow
    /\ location' = Q.location

\* the views are constructed over visible, inactive libraries: the element
\* is created without the class 'active', the marker is dropped on the map
LibraryConstructed ==
    /\ model = [l \in Libs |-> [active |-> FALSE, visible |-> TRUE]]
    /\ el = [l \in Libs |-> [active |-> FALSE, shown |-> TRUE]]
    /\ marker = [l \in Libs |-> [shown |-> TRUE, bouncing |-> FALSE]]
    /\ infoWindow = 0
    /\ location = "map"

\* no blog request is made while the search controller is exercised
BlogIdle ==
    /\ itemsPerPage = 1
    /\ expiration = 0
    /\ BlogConstructed

\* no search call is made while the blog controller is exercised
SearchIdle ==
    /\ parameters = AllParameters
    /\ fn = "none"
    /\ supplied = EmptyObj
    /\ sanitized = EmptyObj
    /\ opts = EmptyObj
    /\ pc = "idle"
    /\ contacted = <<>>
    /\ cbs = <<>>
    /\ thrown = FALSE

\* the search controller's module is loaded, with some configuration
SInit ==
    /\ parameters \in Whitelists
    /\ fn = "none"
    /\ supplied = EmptyObj
    /\ sanitized = EmptyObj
    /\ opts = EmptyObj
    /\ pc = "idle"
    /\ contacted = <<>>
    /\ cbs = <<>>
    /\ thrown = FALSE
    /\ BlogIdle
    /\ LibraryConstructed

\* the blog controller is constructed, with some expiration configured
BInit ==
    /\ itemsPerPage = MaxPerPage
    /\ expiration \in 0..MaxExp
    /\ BlogConstructed
    /\ SearchIdle
    /\ LibraryConstructed

Request ==
    /\ \E r \in Reqs, page \in BlogPages, pgErr \in BOOLEAN : GetContent(r, page, pgErr)
    /\ UNCHANGED <<svars, lvars>>

FetchError ==
    /\ \E r \in Reqs : FetchFailed(r)
    /\ UNCHANGED <<svars, lvars>>

FetchSuccess ==
    /\ \E r \in Reqs, list \in BlogLists, d \in 0..MaxSkew, pgErr \in BOOLEAN :
          FetchSucceeded(r, list, d, pgErr)
    /\ UNCHANGED <<svars, lvars>>

ClockTick == Tick /\ UNCHANGED <<svars, lvars>>

ResponseSent ==
    /\ \E r \in Reqs : Forget(r)
    /\ UNCHANGED <<svars, lvars>>

BNext ==
    \/ Request
    \/ FetchError
    \/ FetchSuccess
    \/ ClockTick
    \/ ResponseSent

(***************************************************************************)
(* One request at a time, with every page parameter, list length and       *)
(* itemsPerPage of the bounds: the runs that exercise the pagination.      *)
(***************************************************************************)
PagingChars == {"0", "1", "2", "-", ".", "a"}
PagingPages == {Undef} \cup {Str(s) : s \in UNION {[1..n -> PagingChars] : n \in 0..MaxPageLen}}
PagingLists == {FeedList(n, 1) : n \in 0..MaxLen}

PInit ==
    /\ itemsPerPage \in 1..MaxPerPage
    /\ expiration = MaxExp
    /\ BlogConstructed
    /\ SearchIdle
    /\ LibraryConstructed

PagedRequest ==
    /\ \E page \in PagingPages, pgErr \in BOOLEAN : GetContent(1, page, pgErr)
    /\ UNCHANGED <<svars, lvars>>

PagedFetchError == FetchFailed(1) /\ UNCHANGED <<svars, lvars>>

PagedFetchSuccess ==
    /\ \E list \in PagingLists, d \in 0..MaxSkew, pgErr \in BOOLEAN :
          FetchSucceeded(1, list, d, pgErr)
    /\ UNCHANGED <<svars, lvars>>

PagedResponseSent == Forget(1) /\ UNCHANGED <<svars, lvars>>

PNext ==
    \/ PagedRequest
    \/ PagedFetchError
    \/ PagedFetchSuccess
    \/ ClockTick
    \/ PagedResponseSent

(***************************************************************************)
(* The map page: the user clicks list items and markers and hovers over    *)
(* list items, which only shown elements and shown markers receive; the    *)
(* filter of the page changes the models' 'visible'.                       *)
(***************************************************************************)
LInit ==
    /\ LibraryConstructed
    /\ SearchIdle
    /\ BlogIdle

ListItemClick ==
    /\ \E l \in Libs, mobile \in BOOLEAN, always \in BOOLEAN :
          /\ el[l].shown
          /\ Becomes(OnActivateClick(Page, l, mobile, always))
    /\ UNCHANGED <<svars, bvars>>

MarkerClick ==
    /\ \E l \in Libs, always \in BOOLEAN :
          /\ marker[l].shown
          /\ Becomes(OnMarkerClick(Page, l, always))
    /\ UNCHANGED <<svars, bvars>>

MouseEnter ==
    /\ \E l \in Libs :
          /\ el[l].shown
          /\ Becomes(OnMouseEnter(Page, l))
    /\ UNCHANGED <<svars, bvars>>

MouseLeave ==
    /\ \E l \in Libs :
          /\ el[l].shown
          /\ Becomes(OnMouseLeave(Page, l))
    /\ UNCHANGED <<svars, bvars>>

VisibleChange ==
    /\ \E l \in Libs, v \in BOOLEAN, always \in BOOLEAN :
          Becomes(SetVisible(Page, l, v, always))
    /\ UNCHANGED <<svars, bvars>>

LNext ==
    \/ ListItemClick
    \/ MarkerClick
    \/ MouseEnter
    \/ MouseLeave
    \/ VisibleChange

SpecLibrary == LInit /\ [][LNext]_vars

SpecPaging == PInit /\ [][PNext]_vars

SpecSearch == SInit /\ [][SNext]_vars

SpecBlog == BInit /\ [][BNext]_vars

(***************************************************************************)
(* Properties of the search controller (specification SpecSearch).         *)
(***************************************************************************)
WhitelistedOnly(o) ==
    /\ DOMAIN o \subseteq parameters
    /\ \A k \in DOMAIN supplied : k \in parameters => k \in DOMAIN o

\* C1: for getResults, getResultById and getFacetsForResults, the options
\* object handed to a vendor backend, and the one echoed back as 'query',
\* has no key outside the configured parameters and still has every
\* configured key that the caller supplied.
C1_WhitelistedKeysOnly ==
    /\ \A i \in 1..Len(contacted) : WhitelistedOnly(contacted[i].opts)
    /\ \A i \in 1..Len(cbs) :
          cbs[i].res.kind = "wrapped" => WhitelistedOnly(cbs[i].res.query)

\* a getResults call that was given a key outside the whitelist next to
\* whitelisted ones, reached the vendor and echoed its query back
C1_Witness ==
    /\ fn = "getResults"
    /\ {"evil", "q", "page"} \subseteq DOMAIN supplied
    /\ Len(contacted) = 1
    /\ Len(cbs) = 1
    /\ cbs[1].res.kind = "wrapped"

\* the page the claim expects for a supplied value
ClaimedPage(v) ==
    LET parsed == ParseInt(v)
    IN  IF parsed.t = "nan" \/ IntVal(parsed) < 1 THEN Int2Num(1)
        ELSE IF IntVal(parsed) > PageLimit THEN Int2Num(PageLimit)
        ELSE parsed

\* C2: for every supplied 'page' value (string or number, 0, negative,
\* decimal and non-numeric values included) the page _sanitizeQuery returns
\* is an integer in 1..pageLimit: 1 for a non-numeric value or a value
\* below 1, pageLimit for a value above it, the integer part otherwise.
C2_PageInRange ==
    (pc # "idle" /\ "page" \in DOMAIN supplied /\ "page" \in parameters) =>
        LET p == Get(sanitized, "page")
        IN  /\ IsInteger(p)
            /\ IntVal(p) \in 1..PageLimit
            /\ p = ClaimedPage(supplied["page"])

\* C3: every getResults call contacts exactly one vendor backend: Summon
\* when the supplied api, lower-cased, is 'summon', Aquabrowser in every
\* other case, whatever the whitelist contains.  (Stated for the
\* whitelists that contain 'api'.)
C3_BackendDispatch ==
    (fn = "getResults" /\ pc # "idle" /\ "api" \in parameters) =>
        /\ Len(contacted) = 1
        /\ contacted[1].api =
             IF Get(supplied, "api").t = "str"
                /\ ToLowerCase(Get(supplied, "api").s) = SUMMON
             THEN "summon" ELSE "aquabrowser"

\* C4: for getResultById and getFacetsForResults, a request whose api is
\* absent or, lower-cased, is neither 'aquabrowser' nor 'summon' ends with
\* the callback receiving {code: 400, msg: 'Invalid API'} and with no
\* vendor backend contacted.
C4_InvalidApiRejected ==
    (/\ fn \in {"getResultById", "getFacetsForResults"}
     /\ pc = "done"
     /\ \/ "api" \notin DOMAIN supplied
        \/ ToLowerCase(Get(supplied, "api").s) \notin {AQUABROWSER, SUMMON}) =>
        /\ cbs = <<[err |-> MkErr(400, "Invalid API"), res |-> NoRes]>>
        /\ contacted = <<>>

\* C5: whatever error value a vendor backend reports, every error passed
\* to the caller's callback is an object with a 'code' and a 'msg' field.
C5_ErrorShape ==
    \A i \in 1..Len(cbs) :
        ~cbs[i].err.null => {"code", "msg"} \subseteq cbs[i].err.fields

(***************************************************************************)
(* Properties of the blog controller (SpecBlog, SpecPaging).               *)
(***************************************************************************)
\* the request r arrives in this step
Arrives(r) == reqs[r].st = "none" /\ reqs'[r].st # "none"

\* the fetch of request r reports an error in this step
FailsNow(r) == reqs[r].st = "fetching" /\ ~reqs[r].fetchErr /\ reqs'[r].fetchErr

\* the fetch of request r succeeds in this step and getContent is re-entered
Reenters(r) ==
    /\ reqs[r].st = "fetching"
    /\ ~reqs'[r].fetchErr
    /\ reqs'[r].st # "fetching" \/ reqs'[r].fetches # reqs[r].fetches

\* some page of itemsPerPage entries cut from list
IsPageOf(shown, list) ==
    \E start \in 0..Len(list) : shown = Slice(list, start, start + itemsPerPage)

\* C6: a getContent request issues an outbound feed fetch if and only if
\* the cache has never been filled or the time since the last successful
\* fetch is greater than the configured expiration; while the cache is
\* fresh a request is served from the cached entries, with no fetch and
\* without changing _entries or _lastUpdated.
C6_FetchIffStale ==
    [][/\ \A r \in Reqs :
         Arrives(r) =>
           LET neverFilled == _entries.null
               stale == ~neverFilled /\ now - IntVal(_lastUpdated) > expiration
               fetched == reqs'[r].st = "fetching" /\ reqs'[r].fetches = 1
           IN  /\ fetched <=> (neverFilled \/ stale)
               /\ ~(neverFilled \/ stale) =>
                    /\ reqs'[r].st = "done"
                    /\ reqs'[r].fetches = 0
                    /\ _entries' = _entries
                    /\ _lastUpdated' = _lastUpdated
                    /\ reqs'[r].out.tpl = "nodes/blogs" =>
                         IsPageOf(reqs'[r].out.entries, _entries.items)
       /\ \A r \in Reqs :
            Reenters(r) =>
              (reqs'[r].fetches = reqs[r].fetches + 1
                 <=> now' - IntVal(_lastUpdated') > expiration)
    ]_vars

\* a request was served from the cache, without a fetch, some time after
\* the cache was filled
C6_Witness ==
    \E r \in Reqs :
        /\ reqs[r].st = "done"
        /\ reqs[r].fetches = 0
        /\ reqs[r].out.tpl = "nodes/blogs"
        /\ reqs[r].out.entries # <<>>
        /\ _lastUpdated # Null
        /\ now > IntVal(_lastUpdated)

\* C7: each inbound request causes at most one outbound HTTP request: a
\* blog getContent request triggers at most one feed fetch before it
\* renders (also when getContent re-enters itself after a successful
\* fetch, for every non-negative expiration and every clock advance), and
\* a search request triggers at most one vendor backend call.
C7_OneOutboundRequest ==
    /\ \A r \in Reqs : reqs[r].fetches <= 1
    /\ Len(contacted) <= 1

CeilDiv(a, b) == (a + b - 1) \div b

\* the entries at indices (p-1)*k .. min(p*k, n)-1 (counted from 0)
PageEntries(list, p, k) ==
    SubSeq(list, (p - 1) * k + 1, IF p * k < Len(list) THEN p * k ELSE Len(list))

\* C9: for a cached list of n entries and itemsPerPage k, every page p with
\* 1 <= p <= ceil(n/k) renders exactly the entries at indices
\* (p-1)*k .. min(p*k, n)-1, any other page value renders the 404 page, and
\* a request without a page parameter renders page 1.  (Stated for absent
\* pages and for page strings that are integers or not numbers; the 500
\* page of a failed fetch or a failed pagination partial is left aside.)
C9_PaginationCoversCache ==
    LET rq == reqs[1]
        n == Len(_entries.items)
        k == itemsPerPage
        num == ToNumber(rq.page)
    IN  (rq.st = "done" /\ rq.out.tpl # "errors/500") =>
          CASE rq.page = Undef ->
                 /\ rq.out.tpl = "nodes/blogs"
                 /\ rq.out.entries = PageEntries(_entries.items, 1, k)
            [] rq.page # Undef /\ rq.page.s # <<>> /\ num.t = "nan" ->
                 rq.out.tpl = "errors/404"
            [] rq.page # Undef /\ rq.page.s # <<>> /\ IsInteger(num) ->
                 IF IntVal(num) >= 1 /\ IntVal(num) <= CeilDiv(n, k)
                 THEN /\ rq.out.tpl = "nodes/blogs"
                      /\ rq.out.entries = PageEntries(_entries.items, IntVal(num), k)
                 ELSE rq.out.tpl = "errors/404"
            [] OTHER -> TRUE

\* what a request may render of a complete list
RendersFrom(shown, lists) == \E list \in lists : IsPageOf(shown, list)

CacheComplete ==
    /\ _lastUpdated # Null =>
         /\ ~_entries.null
         /\ _entries.items \in BlogLists
    /\ \A r \in Reqs :
         /\ reqs[r].st # "crashed"
         /\ reqs[r].out.tpl = "nodes/blogs" => RendersFrom(reqs[r].out.entries, BlogLists)

LastUpdatedGrows ==
    _lastUpdated' # _lastUpdated =>
        /\ _lastUpdated'.t = "num"
        /\ _lastUpdated # Null => IntVal(_lastUpdated') >= IntVal(_lastUpdated)

\* C10: under every interleaving of concurrent getContent requests and
\* feed-fetch completions (successful or failed), _lastUpdated is non-null
\* only when _entries is a complete list returned by one successful fetch,
\* no request renders the blog page from a null or partially built list,
\* and _lastUpdated never decreases.
C10_RefreshRaceBenign == [](CacheComplete) /\ [][LastUpdatedGrows]_vars

\* two requests fetched concurrently, both fetches succeeded, and the two
\* requests rendered different versions of the feed
C10_Witness ==
    \E r1, r2 \in Reqs :
        /\ reqs[r1].fetches = 1 /\ reqs[r2].fetches = 1
        /\ reqs[r1].refreshed /\ reqs[r2].refreshed
        /\ reqs[r1].out.tpl = "nodes/blogs" /\ reqs[r2].out.tpl = "nodes/blogs"
        /\ reqs[r1].out.entries # <<>> /\ reqs[r2].out.entries # <<>>
        /\ reqs[r1].out.entries # reqs[r2].out.entries
(***************************************************************************)
(* C11: the Library view.                                                  *)
(***************************************************************************)
\* the element has the class exactly when the model is active, the marker is
\* shown exactly when the element is, and an active library is not hidden
LibraryInSync(l) ==
    /\ el[l].active <=> model[l].active
    /\ marker[l].shown <=> el[l].shown
    /\ model[l].active => (model[l].visible /\ el[l].shown)

\* 'visible' becomes false on an active library
HidesActive(l) == model[l].active /\ model[l].visible /\ ~model'[l].visible

HidingDeactivates ==
    \A l \in Libs :
        HidesActive(l) => (~model'[l].active /\ infoWindow' = 0 /\ ~el'[l].active)

\* C11: starting from visible, inactive libraries, after any sequence of
\* list-item clicks (desktop or mobile), marker clicks, hover events and
\* changes of 'visible', no library is active while hidden: the step that
\* makes 'visible' false on an active library sets 'active' to false, closes
\* the info window and removes the class 'active'; in every reachable state
\* the element has the class 'active' exactly when the model is active and
\* the marker is shown exactly when the element is shown.
C11_NoActiveWhileHidden ==
    [](\A l \in Libs : LibraryInSync(l)) /\ [][HidingDeactivates]_vars

\* a library that was activated by a click has been hidden, and another one
\* is active
C11_Witness ==
    \E l, k \in Libs :
        /\ ~model[l].visible /\ ~el[l].shown /\ ~el[l].active /\ infoWindow = 0
        /\ model[k].active /\ el[k].active

(***************************************************************************)
(* C12: the caller's callback.                                             *)
(***************************************************************************)
\* the step ends the call: the function has returned and no vendor request
\* is outstanding
CallEnds == pc # "done" /\ pc' = "done"

\* the vendor function threw instead of invoking its callback: the call
\* reached the vendor and ended in the same step
VendorThrew == pc = "idle" /\ pc' = "done" /\ contacted' # contacted

\* an error or a result, never both and never neither
ErrorOrResult(cb) == (cb.err = NoErr) # (cb.res = NoRes)

\* C12: when every vendor backend invokes its own callback exactly once,
\* every call of getResults, getResultById and getFacetsForResults, for every
\* options object (an api that names neither backend and a missing q
\* included), ends with the caller's callback invoked exactly once, with
\* either an error or a result and never both.
C12_CallbackExactlyOnce ==
    [][(CallEnds /\ ~VendorThrew) =>
          (Len(cbs') = 1 /\ ErrorOrResult(cbs'[1]))]_vars

=============================================================================
